---- MODULE Spec2Model ----
(***************************************************************************)
(* Model of src/app.py: the /next_article and /react handlers of the       *)
(* Wikipedia feed service, run as concurrent asyncio request tasks over    *)
(* one SQLite database.  Every `await` of a handler is a step of its own,  *)
(* the synchronous code after it belongs to the same step.  The HTML       *)
(* normalizer behind /article_content is modelled by its pure functions,  *)
(* checked under specifications of their own (ExtractSpec, ConvertSpec).   *)
(*                                                                         *)
(* Optional values (Python None / an absent dict key) are sequences of     *)
(* length 0 or 1: None is <<>>, the value v is <<v>>.                      *)
(***************************************************************************)
EXTENDS Integers, Sequences, FiniteSets, Bags, TLC

\* ------------------------------------------------------------------ bounds
\* The request tasks that can be in flight at once.
Req == {"r1", "r2"}
\* Requests started in one behaviour.
MaxCalls == 2
\* Two requests run at the same time only while each is within this many
\* finished attempts of its loop; a request further into its loop runs alone.
MaxOverlapAttempts == 1
\* Handles the clients use, and the article ids a client may send to /react.
Handles == {"alice", "bob"}
ReactArticleIds == {1, 2}

\* ------------------------------------------------------- program constants
LANG == "ja"
\* range(12): the retry budget of next_article.
MaxAttempts == 12
Reactions == {"like", "skip", "block"}

None == <<>>
Some(v) == <<v>>

\* ------------------------------------------------------------- the upstream
\* One response of the random-summary endpoint (the dict r.json()).
Summary(type, pageid, title, content_urls, extract, thumbnail) ==
  [type |-> type, pageid |-> pageid, title |-> title,
   content_urls |-> content_urls, extract |-> extract, thumbnail |-> thumbnail]

Urls(page) == Some([desktop |-> Some([page |-> Some(page)])])

StdA    == Summary(Some("standard"), Some(42), Some("T"), Urls("https://x/T"), Some("E"), None)
StdA2   == Summary(None, Some(42), Some("T renamed"), Urls("https://x/T2"), None,
                   Some([source |-> Some("https://x/T.png")]))
StdB    == Summary(Some("standard"), Some(7), Some("B"), Urls("https://x/B"), Some("EB"),
                   Some([source |-> None]))
Disambig  == Summary(Some("disambiguation"), Some(7), Some("B"), Urls("https://x/B"), Some("EB"), None)
NoPageId  == Summary(Some("standard"), None, Some("T"), Urls("https://x/T"), Some("E"), None)
ZeroPageId == Summary(None, Some(0), Some("T"), Urls("https://x/T"), Some("E"), None)
NoTitle   == Summary(Some("standard"), Some(42), None, Urls("https://x/T"), Some("E"), None)
NoUrls    == Summary(Some("standard"), Some(42), Some("T"), None, Some("E"), None)
NoDesktop == Summary(None, Some(42), Some("T"), Some([desktop |-> None]), Some("E"), None)
NoPage    == Summary(Some("standard"), Some(7), Some("B"), Some([desktop |-> Some([page |-> None])]),
                     None, None)

Summaries ==
  {StdA, StdA2, StdB, Disambig, NoPageId, ZeroPageId, NoTitle, NoUrls, NoDesktop, NoPage}

NoJs == Summary(None, None, None, None, None, None)

\* Mutant: the test without its `not`.
TypeRejectedInverted(js) == js.type = None \/ js.type = Some("standard")

\* js.get("type") not in (None, "standard")
TypeRejected(js) == ~(js.type = None \/ js.type = Some("standard"))

\* (js.get("content_urls") or {}).get("desktop", {}).get("page")
DesktopPageUrl(js) ==
  IF js.content_urls = None THEN None
  ELSE IF js.content_urls[1].desktop = None THEN None
  ELSE js.content_urls[1].desktop[1].page

\* Python truth of an optional int / an optional str.
TruthyInt(m) == m # None /\ m[1] # 0
TruthyStr(m) == m # None /\ m[1] # ""

\* not (pageid and title and url)
FieldsMissing(js) ==
  ~(TruthyInt(js.pageid) /\ TruthyStr(js.title) /\ TruthyStr(DesktopPageUrl(js)))

\* (js.get("thumbnail") or {}).get("source")
ThumbnailSource(js) == IF js.thumbnail = None THEN None ELSE js.thumbnail[1].source

\* The dict next_article returns.
Payload(article_id, title, url, js) ==
  [article_id |-> article_id, title |-> title, url |-> url,
   summary |-> [extract |-> js.extract, thumbnail |-> ThumbnailSource(js)]]

NoPayload == [article_id |-> 0, title |-> None, url |-> None,
              summary |-> [extract |-> None, thumbnail |-> None]]

\* Mutant: an off-by-one loop bound.
LoopContinuesOffByOne(n) == n <= MaxAttempts

\* for _ in range(12): the loop runs another attempt.
LoopContinues(n) == n < MaxAttempts

\* ---------------------------------------------------------------- the store
\* The schema (schema.sql): users(id, handle unique),
\* articles(id, lang, page_id, title, url; unique(lang, page_id)),
\* user_articles(user_id, article_id, reacted, reaction;
\*               unique(user_id, article_id)).
\* users and articles are sets of rows, user_articles is a bag of rows.
EmptyDb == [users |-> {}, articles |-> {}, user_articles |-> EmptyBag]

SetMax(S) == CHOOSE x \in S : \A y \in S : y <= x

\* integer primary key: the next rowid of a table.
NextRowId(rows) == IF rows = {} THEN 1 ELSE SetMax({row.id : row \in rows}) + 1

\* unique(handle)
UsersConflict(rows, handle) == \E row \in rows : row.handle = handle
\* unique(lang, page_id)
ArticlesConflict(rows, lang, page_id) ==
  \E row \in rows : row.lang = lang /\ row.page_id = page_id
\* unique(user_id, article_id)
UserArticlesConflict(bag, user_id, article_id) ==
  \E row \in BagToSet(bag) : row.user_id = user_id /\ row.article_id = article_id

\* Column defaults of user_articles.
NewUserArticle(user_id, article_id) ==
  [user_id |-> user_id, article_id |-> article_id, reacted |-> 0, reaction |-> None]

\* Mutant: insert or replace into users: the conflicting row is deleted and
\* the handle gets a new row.
InsertOrReplaceUser(db, handle) ==
  LET kept == {row \in db.users : row.handle # handle}
  IN [db EXCEPT !.users = kept \cup {[id |-> NextRowId(db.users), handle |-> handle]}]

\* insert or ignore into users(handle) values(?)
InsertOrIgnoreUser(db, handle) ==
  IF UsersConflict(db.users, handle) THEN db
  ELSE [db EXCEPT !.users = @ \cup {[id |-> NextRowId(@), handle |-> handle]}]

\* select id from users where handle=?  ; fetchone()
SelectUserId(db, handle) ==
  LET rows == {row \in db.users : row.handle = handle}
  IN IF rows = {} THEN None
     ELSE Some((CHOOSE row \in rows : \A o \in rows : row.id <= o.id).id)

\* Mutant: insert or replace into articles.
InsertOrReplaceArticle(db, lang, page_id, title, url) ==
  LET kept == {row \in db.articles : ~(row.lang = lang /\ row.page_id = page_id)}
  IN [db EXCEPT !.articles = kept \cup
        {[id |-> NextRowId(db.articles), lang |-> lang, page_id |-> page_id,
          title |-> title, url |-> url]}]

\* insert or ignore into articles(lang, page_id, title, url) values(?,?,?,?)
InsertOrIgnoreArticle(db, lang, page_id, title, url) ==
  IF ArticlesConflict(db.articles, lang, page_id) THEN db
  ELSE [db EXCEPT !.articles = @ \cup
          {[id |-> NextRowId(@), lang |-> lang, page_id |-> page_id,
            title |-> title, url |-> url]}]

\* select id from articles where lang=? and page_id=?  ; fetchone()
SelectArticleId(db, lang, page_id) ==
  LET rows == {row \in db.articles : row.lang = lang /\ row.page_id = page_id}
  IN IF rows = {} THEN None
     ELSE Some((CHOOSE row \in rows : \A o \in rows : row.id <= o.id).id)

\* select 1 from user_articles where user_id=? and article_id=?  ; fetchone()
SelectExposure(db, user_id, article_id) ==
  \E row \in BagToSet(db.user_articles) :
     row.user_id = user_id /\ row.article_id = article_id

\* Mutant: insert or ignore into user_articles: a conflict is no error.
InsertOrIgnoreUserArticle(db, user_id, article_id) ==
  IF UserArticlesConflict(db.user_articles, user_id, article_id)
  THEN [ok |-> TRUE, db |-> db]
  ELSE [ok |-> TRUE,
        db |-> [db EXCEPT !.user_articles =
                  @ (+) SetToBag({NewUserArticle(user_id, article_id)})]]

\* Mutant: insert or replace into user_articles: a conflicting row is
\* replaced by a fresh one.
InsertOrReplaceUserArticle(db, user_id, article_id) ==
  LET kept == {row \in BagToSet(db.user_articles) :
                 ~(row.user_id = user_id /\ row.article_id = article_id)}
  IN [ok |-> TRUE,
      db |-> [db EXCEPT !.user_articles =
                [row \in kept |-> CopiesIn(row, db.user_articles)]
                (+) SetToBag({NewUserArticle(user_id, article_id)})]]

\* insert into user_articles(user_id, article_id) values(?,?):
\* the new table, or the IntegrityError of the unique constraint.
InsertUserArticle(db, user_id, article_id) ==
  IF UserArticlesConflict(db.user_articles, user_id, article_id)
  THEN [ok |-> FALSE, db |-> db]
  ELSE [ok |-> TRUE,
        db |-> [db EXCEPT !.user_articles =
                  @ (+) SetToBag({NewUserArticle(user_id, article_id)})]]

\* Mutant: the update with `and reaction is null`: a reaction is never overwritten.
UpdateReactionOnce(db, reaction, user_id, article_id) ==
  LET New(row) == IF /\ row.user_id = user_id /\ row.article_id = article_id
                     /\ row.reaction = None
                  THEN [row EXCEPT !.reacted = 1, !.reaction = Some(reaction)]
                  ELSE row
  IN [db EXCEPT !.user_articles = SetToBag({New(row) : row \in BagToSet(@)})]

\* Mutant: the update without `reacted=1`.
UpdateReactionOnly(db, reaction, user_id, article_id) ==
  LET New(row) == IF row.user_id = user_id /\ row.article_id = article_id
                  THEN [row EXCEPT !.reaction = Some(reaction)]
                  ELSE row
  IN [db EXCEPT !.user_articles = SetToBag({New(row) : row \in BagToSet(@)})]

\* Mutant: the update without `and article_id=?`.
UpdateReactionOfUser(db, reaction, user_id, article_id) ==
  LET New(row) == IF row.user_id = user_id
                  THEN [row EXCEPT !.reacted = 1, !.reaction = Some(reaction)]
                  ELSE row
  IN [db EXCEPT !.user_articles = SetToBag({New(row) : row \in BagToSet(@)})]

\* update user_articles set reacted=1, reaction=? where user_id=? and article_id=?
UpdateReaction(db, reaction, user_id, article_id) ==
  LET Hit(row) == row.user_id = user_id /\ row.article_id = article_id
      New(row) == IF Hit(row) THEN [row EXCEPT !.reacted = 1, !.reaction = Some(reaction)]
                  ELSE row
      old == db.user_articles
      rows == {New(row) : row \in BagToSet(old)}
      Count(n) == LET src == {row \in BagToSet(old) : New(row) = n}
                      Sum[S \in SUBSET src] ==
                        IF S = {} THEN 0
                        ELSE LET x == CHOOSE x \in S : TRUE
                             IN CopiesIn(x, old) + Sum[S \ {x}]
                  IN Sum[src]
  IN [db EXCEPT !.user_articles = [n \in rows |-> Count(n)]]

\* ------------------------------------------------------- the HTML normalizer
\* A page is a sequence of elements in document order; each has a tag (with
\* the id or class the selectors look at), a parent (0: the document) and
\* one text node of its own, named by the element's position.
MaxNodes == 4
Tags == {"div#mw-content-text", "table.infobox", "ol.references", "p",
         "h1#firstHeading", "title"}

Element(t, p) == [tag |-> t, parent |-> p]

RECURSIVE Ancestors(_, _)
Ancestors(doc, i) ==
  IF doc[i].parent = 0 THEN {}
  ELSE {doc[i].parent} \cup Ancestors(doc, doc[i].parent)

\* The element and everything below it.
Subtree(doc, i) == {j \in 1..Len(doc) : j = i \/ i \in Ancestors(doc, j)}

\* The parser's open elements after the page so far: the next element goes
\* under the last element, under one of its ancestors, or to the top (0).
OpenElements(doc) ==
  IF doc = <<>> THEN {0} ELSE {0, Len(doc)} \cup Ancestors(doc, Len(doc))

\* select_one over a set of elements: the first match in document order.
SelectOne(doc, among, t) ==
  LET found == {i \in among : doc[i].tag = t}
  IN IF found = {} THEN 0 ELSE CHOOSE i \in found : \A j \in found : i <= j

AllNodes(doc) == 1..Len(doc)

\* Mutant: the reference list is left in the content.
SelectorsToRemoveWithoutReferences ==
  <<"table.infobox", "table.vertical-navbox", "table.navbox", "div.hatnote",
    "div.reflist", "div.sidebar", "div.toc", "span.mw-editsection",
    "div.mw-kartographer-container", "figure[role='navigation']", "script",
    "style", "link", "noscript">>

SelectorsToRemove ==
  <<"table.infobox", "table.vertical-navbox", "table.navbox", "div.hatnote",
    "div.reflist", "ol.references", "div.sidebar", "div.toc", "span.mw-editsection",
    "div.mw-kartographer-container", "figure[role='navigation']", "script",
    "style", "link", "noscript">>

\* for selector in selectors: for el in content.select(selector): el.decompose()
\* over the elements still attached below the content element.
RECURSIVE Decompose(_, _, _, _)
Decompose(doc, content_el, attached, selectors) ==
  IF selectors = <<>> THEN attached
  ELSE LET els == {i \in attached \ {content_el} : doc[i].tag = Head(selectors)}
       IN Decompose(doc, content_el,
                    attached \ UNION {Subtree(doc, i) : i \in els},
                    Tail(selectors))

\* _extract_wikipedia_main_html: the title's text and the elements whose
\* text the returned HTML holds.
ExtractTitle(doc) ==
  LET heading == SelectOne(doc, AllNodes(doc), "h1#firstHeading")
      title_el == IF heading # 0 THEN heading ELSE SelectOne(doc, AllNodes(doc), "title")
  IN IF title_el = 0 THEN None ELSE Some(Subtree(doc, title_el))

ExtractMainHtml(doc) ==
  LET content_el == SelectOne(doc, AllNodes(doc), "div#mw-content-text")
  IN IF content_el = 0
     THEN AllNodes(doc)
     ELSE Decompose(doc, content_el,
                    Decompose(doc, content_el, Subtree(doc, content_el), SelectorsToRemove),
                    <<"sup.reference">>)

\* The string a conversion (markdownify's md, BeautifulSoup's get_text)
\* hands to the post-processing, as a sequence of characters.
MaxTextLen == 6
NL == "\n"
Chars == {"a", " ", NL}
Whitespace == {" ", NL}
Texts == UNION {[1..n -> Chars] : n \in 0..MaxTextLen}

\* The number of newlines the string starts with.
RECURSIVE LeadingNewlines(_)
LeadingNewlines(s) ==
  IF s = <<>> \/ Head(s) # NL THEN 0 ELSE 1 + LeadingNewlines(Tail(s))

\* re.sub(r"\n{3,}", "\n\n", s)
RECURSIVE CollapseNewlines(_)
CollapseNewlines(s) ==
  IF s = <<>> THEN <<>>
  ELSE IF Head(s) # NL THEN <<Head(s)>> \o CollapseNewlines(Tail(s))
  ELSE LET n == LeadingNewlines(s)
       IN (IF n >= 3 THEN <<NL, NL>> ELSE SubSeq(s, 1, n))
          \o CollapseNewlines(SubSeq(s, n + 1, Len(s)))

\* s.splitlines(): a final newline opens no further line.
RECURSIVE SplitLines(_)
SplitLines(s) ==
  IF s = <<>> THEN <<>>
  ELSE IF \A i \in 1..Len(s) : s[i] # NL THEN <<s>>
  ELSE LET i == CHOOSE k \in 1..Len(s) : s[k] = NL /\ \A j \in 1..(k - 1) : s[j] # NL
       IN <<SubSeq(s, 1, i - 1)>> \o SplitLines(SubSeq(s, i + 1, Len(s)))

RECURSIVE RStrip(_)
RStrip(s) ==
  IF s # <<>> /\ s[Len(s)] \in Whitespace THEN RStrip(SubSeq(s, 1, Len(s) - 1)) ELSE s

RECURSIVE LStrip(_)
LStrip(s) == IF s # <<>> /\ Head(s) \in Whitespace THEN LStrip(Tail(s)) ELSE s

Strip(s) == LStrip(RStrip(s))

\* "\n".join(lines)
RECURSIVE JoinLines(_)
JoinLines(lines) ==
  IF lines = <<>> THEN <<>>
  ELSE IF Len(lines) = 1 THEN lines[1]
  ELSE lines[1] \o <<NL>> \o JoinLines(Tail(lines))

\* _html_to_markdown after md(): collapse, strip.
HtmlToMarkdown(markdown) == Strip(CollapseNewlines(markdown))

\* _html_to_text after get_text(): collapse, strip each line's end, strip.
HtmlToText(text) ==
  LET collapsed == CollapseNewlines(text)
      lines == SplitLines(collapsed)
  IN Strip(JoinLines([i \in 1..Len(lines) |-> RStrip(lines[i])]))

\* ---------------------------------------------------------------- the state
VARIABLES
  store,       \* the committed database
  pending,     \* the database as the connection holding the write lock sees it
  writer,      \* that connection's request, or "none"
  pc,          \* where each request task is suspended
  kind,        \* "next_article" or "react"
  user,        \* the handle of the request's query string
  inp,         \* the body of a /react request (ReactIn)
  conn,        \* the state of the request's connection
  uid, attempt, js, article_id,   \* locals of the handler
  result,      \* the response: its outcome and, for next_article, its payload
  calls,       \* requests started so far
  fetches,     \* history: upstream fetches each request has made
  resolved,    \* history: the <<handle, id>> pairs get_or_create_user returned
  served,      \* history: the bag of <<user id, article id>> pairs returned to clients
  raced,       \* history: the requests whose check-to-insert gaps for one
               \* (user, article) overlapped this request's
  failed,      \* history: the request's last upstream fetch raised
  html,        \* article_content: the page fetched (r.text)
  title, main_html,   \* article_content: what the extraction returned
  converted,   \* article_content: the conversion's output before post-processing
  format,      \* article_content: the format parameter
  content,     \* article_content: the content of the response
  ppc          \* where the article_content request is

locals == <<uid, attempt, js, article_id>>
history == <<fetches, resolved, served, raced, failed>>
service == <<store, pending, writer, pc, kind, user, inp, conn, uid, attempt, js,
             article_id, result, calls, fetches, resolved, served, raced, failed>>
page == <<html, title, main_html, converted, format, content, ppc>>
vars == <<store, pending, writer, pc, kind, user, inp, conn, uid, attempt, js,
          article_id, result, calls, fetches, resolved, served, raced, failed,
          html, title, main_html, converted, format, content, ppc>>

NoInp == [article_id |-> 0, reaction |-> "like"]
NoResult == [outcome |-> "none", payload |-> NoPayload]
Outcome(o) == [outcome |-> o, payload |-> NoPayload]

\* No article_content request has been made.
PageIdle ==
  /\ html = <<>>
  /\ title = None
  /\ main_html = {}
  /\ converted = <<>>
  /\ format = "markdown"
  /\ content = <<>>
  /\ ppc = "idle"

\* No request has arrived and the database is empty.
NoRequests ==
  /\ store = EmptyDb
  /\ pending = EmptyDb
  /\ writer = "none"
  /\ pc = [r \in Req |-> "idle"]
  /\ kind = [r \in Req |-> "next_article"]
  /\ user = [r \in Req |-> "alice"]
  /\ inp = [r \in Req |-> NoInp]
  /\ conn = [r \in Req |-> "none"]
  /\ uid = [r \in Req |-> 0]
  /\ attempt = [r \in Req |-> 0]
  /\ js = [r \in Req |-> NoJs]
  /\ article_id = [r \in Req |-> 0]
  /\ result = [r \in Req |-> NoResult]
  /\ calls = 0
  /\ fetches = [r \in Req |-> 0]
  /\ resolved = {}
  /\ served = EmptyBag
  /\ raced = [r \in Req |-> {}]
  /\ failed = [r \in Req |-> FALSE]

Init == PageIdle /\ NoRequests

\* The database a statement of request r reads: its own uncommitted writes
\* are visible to it, those of another connection are not.
View(r) == IF writer = r THEN pending ELSE store

\* A writing statement needs the database's write lock; while another
\* connection holds it the statement waits.
CanWrite(r) == writer \in {"none", r}

\* The statement's effect, kept in the connection's open transaction.
Write(r, db) == /\ pending' = db
                /\ writer' = r
                /\ UNCHANGED store

\* await conn.commit()
Commit(r) == /\ store' = View(r)
             /\ pending' = View(r)
             /\ writer' = "none"

\* await conn.close(): an open transaction is rolled back.
Rollback(r) == /\ pending' = IF writer = r THEN store ELSE pending
               /\ writer' = IF writer = r THEN "none" ELSE writer
               /\ UNCHANGED store

\* The request has arrived and its response has not been sent.
Busy(r) == pc[r] \notin {"idle", "done"}

\* The request tasks are interchangeable: a new request takes "r2" only
\* while "r1" is taken.  A request that died with the process is kept as it
\* was, for what it had done to be told.
SlotFree(r) ==
  /\ ~Busy(r)
  /\ conn[r] # "lost"
  /\ r = "r2" => Busy("r1") \/ conn["r1"] = "lost"

\* The bound on overlapping requests (MaxOverlapAttempts): past it the
\* upstream answers a request only once the other has finished, or fails.
MayOverlap(r) == \A o \in Req \ {r} : Busy(o) => attempt[o] < MaxOverlapAttempts
MayFetch(r) == attempt[r] < MaxOverlapAttempts \/ \A o \in Req \ {r} : ~Busy(o)

\* A request arrives.
Begin(r, k, h, i) ==
  /\ SlotFree(r)
  /\ MayOverlap(r)
  /\ calls < MaxCalls
  /\ calls' = calls + 1
  /\ pc' = [pc EXCEPT ![r] = "get_db"]
  /\ kind' = [kind EXCEPT ![r] = k]
  /\ user' = [user EXCEPT ![r] = h]
  /\ inp' = [inp EXCEPT ![r] = i]
  /\ conn' = [conn EXCEPT ![r] = "none"]
  /\ uid' = [uid EXCEPT ![r] = 0]
  /\ attempt' = [attempt EXCEPT ![r] = 0]
  /\ js' = [js EXCEPT ![r] = NoJs]
  /\ article_id' = [article_id EXCEPT ![r] = 0]
  /\ result' = [result EXCEPT ![r] = NoResult]
  /\ fetches' = [fetches EXCEPT ![r] = 0]
  /\ raced' = [o \in Req |-> IF o = r THEN {} ELSE raced[o] \ {r}]
  /\ failed' = [failed EXCEPT ![r] = FALSE]
  /\ UNCHANGED <<store, pending, writer, resolved, served>>
  /\ UNCHANGED page

\* GET /next_article?user=h
StartNextArticle(r) == \E h \in Handles : Begin(r, "next_article", h, NoInp)

\* POST /react?user=h with body {article_id, reaction}
StartReact(r) ==
  \E h \in Handles, a \in ReactArticleIds, re \in Reactions :
     Begin(r, "react", h, [article_id |-> a, reaction |-> re])

\* conn = await get_db(): connect, apply the schema.  An error of
\* executescript other than FileNotFoundError leaves get_db with the
\* connection open and ends the request before its try block.
GetDb(r) ==
  /\ pc[r] = "get_db"
  /\ conn' = [conn EXCEPT ![r] = "open"]
  /\ \/ /\ pc' = [pc EXCEPT ![r] = "user_insert"]
        /\ UNCHANGED result
     \/ /\ pc' = [pc EXCEPT ![r] = "done"]
        /\ result' = [result EXCEPT ![r] = Outcome("SchemaError")]
  /\ UNCHANGED <<store, pending, writer, kind, user, inp, locals, calls, history>>
  /\ UNCHANGED page

\* get_or_create_user: await conn.execute("insert or ignore into users ...")
UserInsert(r) ==
  /\ pc[r] = "user_insert"
  /\ CanWrite(r)
  /\ Write(r, InsertOrIgnoreUser(View(r), user[r]))
  /\ pc' = [pc EXCEPT ![r] = "user_commit"]
  /\ UNCHANGED <<kind, user, inp, conn, locals, result, calls, history>>
  /\ UNCHANGED page

\* get_or_create_user: await conn.commit()
UserCommit(r) ==
  /\ pc[r] = "user_commit"
  /\ Commit(r)
  /\ pc' = [pc EXCEPT ![r] = "user_select"]
  /\ UNCHANGED <<kind, user, inp, conn, locals, result, calls, history>>
  /\ UNCHANGED page

\* Where the handler goes once the loop has finished n iterations without
\* returning: the next fetch, or the 404 after the loop.
AfterIteration(r, n) ==
  IF LoopContinues(n)
  THEN /\ pc' = [pc EXCEPT ![r] = "fetch"]
       /\ UNCHANGED result
  ELSE /\ pc' = [pc EXCEPT ![r] = "close"]
       /\ result' = [result EXCEPT ![r] = Outcome("NotFound404")]

\* get_or_create_user: the select, fetchone, and the return to the handler.
UserSelect(r) ==
  /\ pc[r] = "user_select"
  /\ LET row == SelectUserId(View(r), user[r])
     IN IF row = None
        THEN /\ pc' = [pc EXCEPT ![r] = "close"]
             /\ result' = [result EXCEPT ![r] = Outcome("FailedToGetUserId500")]
             /\ UNCHANGED <<uid, resolved>>
        ELSE /\ uid' = [uid EXCEPT ![r] = row[1]]
             /\ resolved' = resolved \cup {<<user[r], row[1]>>}
             /\ IF kind[r] = "next_article"
                THEN AfterIteration(r, 0)
                ELSE /\ pc' = [pc EXCEPT ![r] = "react_update"]
                     /\ UNCHANGED result
  /\ UNCHANGED <<store, pending, writer, kind, user, inp, conn, attempt, js,
                 article_id, calls, fetches, served, raced, failed>>
  /\ UNCHANGED page

\* continue: the iteration ends without a return.
Continue(r) ==
  /\ attempt' = [attempt EXCEPT ![r] = @ + 1]
  /\ AfterIteration(r, attempt[r] + 1)

\* js = await fetch_random_summary() answering s, and the two filters.
FetchSummary(r, s) ==
  /\ pc[r] = "fetch"
  /\ MayFetch(r)
  /\ fetches' = [fetches EXCEPT ![r] = @ + 1]
  /\ IF TypeRejected(s) \/ FieldsMissing(s)
     THEN /\ Continue(r)
          /\ js' = [js EXCEPT ![r] = NoJs]
     ELSE /\ js' = [js EXCEPT ![r] = s]
          /\ pc' = [pc EXCEPT ![r] = "article_insert"]
          /\ UNCHANGED <<attempt, result>>
  /\ UNCHANGED <<store, pending, writer, kind, user, inp, conn, uid, article_id,
                 calls, resolved, served, raced, failed>>
  /\ UNCHANGED page

Fetch(r) == \E s \in Summaries : FetchSummary(r, s)

\* Mutant: the failure is caught and the attempt counted as a rejected one.
FetchFailsSkipped(r) ==
  /\ pc[r] = "fetch"
  /\ fetches' = [fetches EXCEPT ![r] = @ + 1]
  /\ failed' = [failed EXCEPT ![r] = TRUE]
  /\ Continue(r)
  /\ UNCHANGED <<store, pending, writer, kind, user, inp, conn, uid, js, article_id,
                 calls, resolved, served, raced>>
  /\ UNCHANGED page

\* fetch_random_summary raises (transport error, raise_for_status).
FetchFails(r) ==
  /\ pc[r] = "fetch"
  /\ fetches' = [fetches EXCEPT ![r] = @ + 1]
  /\ failed' = [failed EXCEPT ![r] = TRUE]
  /\ pc' = [pc EXCEPT ![r] = "close"]
  /\ result' = [result EXCEPT ![r] = Outcome("UpstreamError")]
  /\ UNCHANGED <<store, pending, writer, kind, user, inp, conn, locals, calls,
                 resolved, served, raced>>
  /\ UNCHANGED page

\* await conn.execute("insert or ignore into articles ...")
ArticleInsert(r) ==
  /\ pc[r] = "article_insert"
  /\ CanWrite(r)
  /\ Write(r, InsertOrIgnoreArticle(View(r), LANG, js[r].pageid[1], js[r].title[1],
                                    DesktopPageUrl(js[r])[1]))
  /\ pc' = [pc EXCEPT ![r] = "article_commit"]
  /\ UNCHANGED <<kind, user, inp, conn, locals, result, calls, history>>
  /\ UNCHANGED page

\* await conn.commit()
ArticleCommit(r) ==
  /\ pc[r] = "article_commit"
  /\ Commit(r)
  /\ pc' = [pc EXCEPT ![r] = "article_select"]
  /\ UNCHANGED <<kind, user, inp, conn, locals, result, calls, history>>
  /\ UNCHANGED page

\* select id from articles ...; if not ar: continue
ArticleSelect(r) ==
  /\ pc[r] = "article_select"
  /\ LET ar == SelectArticleId(View(r), LANG, js[r].pageid[1])
     IN IF ar = None
        THEN /\ Continue(r)
             /\ UNCHANGED article_id
        ELSE /\ article_id' = [article_id EXCEPT ![r] = ar[1]]
             /\ pc' = [pc EXCEPT ![r] = "exposure_select"]
             /\ UNCHANGED <<attempt, result>>
  /\ UNCHANGED <<store, pending, writer, kind, user, inp, conn, uid, js, calls, history>>
  /\ UNCHANGED page

\* The requests that have found no exposure of (u, a) and not yet run their insert.
InGap(u, a) == {o \in Req : pc[o] = "exposure_insert" /\ uid[o] = u /\ article_id[o] = a}

\* select 1 from user_articles ...; if await cur.fetchone(): continue
ExposureSelect(r) ==
  /\ pc[r] = "exposure_select"
  /\ IF SelectExposure(View(r), uid[r], article_id[r])
     THEN /\ Continue(r)
          /\ UNCHANGED raced
     ELSE /\ pc' = [pc EXCEPT ![r] = "exposure_insert"]
          /\ raced' = [o \in Req |->
                         IF o = r THEN InGap(uid[r], article_id[r])
                         ELSE IF o \in InGap(uid[r], article_id[r]) THEN raced[o] \cup {r}
                         ELSE raced[o]]
          /\ UNCHANGED <<attempt, result>>
  /\ UNCHANGED <<store, pending, writer, kind, user, inp, conn, uid, js, article_id,
                 calls, fetches, resolved, served, failed>>
  /\ UNCHANGED page

\* Mutant: the IntegrityError is caught and the attempt resampled.
ExposureInsertRetry(r) ==
  /\ pc[r] = "exposure_insert"
  /\ CanWrite(r)
  /\ LET ins == InsertUserArticle(View(r), uid[r], article_id[r])
     IN /\ Write(r, ins.db)
        /\ IF ins.ok
           THEN /\ pc' = [pc EXCEPT ![r] = "exposure_commit"]
                /\ UNCHANGED <<result, attempt>>
           ELSE Continue(r)
  /\ UNCHANGED <<kind, user, inp, conn, uid, js, article_id, calls, history>>
  /\ UNCHANGED page

\* await conn.execute("insert into user_articles ..."): the row, or the
\* IntegrityError that leaves the try block through finally.
ExposureInsert(r) ==
  /\ pc[r] = "exposure_insert"
  /\ CanWrite(r)
  /\ LET ins == InsertUserArticle(View(r), uid[r], article_id[r])
     IN /\ Write(r, ins.db)
        /\ IF ins.ok
           THEN /\ pc' = [pc EXCEPT ![r] = "exposure_commit"]
                /\ UNCHANGED result
           ELSE /\ pc' = [pc EXCEPT ![r] = "close"]
                /\ result' = [result EXCEPT ![r] = Outcome("IntegrityError")]
  /\ UNCHANGED <<kind, user, inp, conn, locals, calls, history>>
  /\ UNCHANGED page

\* Mutant: the return without the commit before it.
ExposureReturnUncommitted(r) ==
  /\ pc[r] = "exposure_commit"
  /\ pc' = [pc EXCEPT ![r] = "close"]
  /\ result' = [result EXCEPT ![r] =
                  [outcome |-> "ok",
                   payload |-> Payload(article_id[r], js[r].title, DesktopPageUrl(js[r]), js[r])]]
  /\ UNCHANGED <<store, pending, writer, kind, user, inp, conn, locals, calls, history>>
  /\ UNCHANGED page

\* Mutant: the commit succeeds and the call then ends with the 404.
ExposureCommitThenFail(r) ==
  /\ pc[r] = "exposure_commit"
  /\ Commit(r)
  /\ pc' = [pc EXCEPT ![r] = "close"]
  /\ result' = [result EXCEPT ![r] = Outcome("NotFound404")]
  /\ UNCHANGED <<kind, user, inp, conn, locals, calls, history>>
  /\ UNCHANGED page

\* await conn.commit(); return {...}
ExposureCommit(r) ==
  /\ pc[r] = "exposure_commit"
  /\ Commit(r)
  /\ pc' = [pc EXCEPT ![r] = "close"]
  /\ result' = [result EXCEPT ![r] =
                  [outcome |-> "ok",
                   payload |-> Payload(article_id[r], js[r].title, DesktopPageUrl(js[r]), js[r])]]
  /\ UNCHANGED <<kind, user, inp, conn, locals, calls, history>>
  /\ UNCHANGED page

\* react: await conn.execute("update user_articles set reacted=1, reaction=? ...")
ReactUpdate(r) ==
  /\ pc[r] = "react_update"
  /\ CanWrite(r)
  /\ Write(r, UpdateReaction(View(r), inp[r].reaction, uid[r], inp[r].article_id))
  /\ pc' = [pc EXCEPT ![r] = "react_commit"]
  /\ UNCHANGED <<kind, user, inp, conn, locals, result, calls, history>>
  /\ UNCHANGED page

\* react: await conn.commit(); return {"ok": True}
ReactCommit(r) ==
  /\ pc[r] = "react_commit"
  /\ Commit(r)
  /\ pc' = [pc EXCEPT ![r] = "close"]
  /\ result' = [result EXCEPT ![r] = Outcome("ok")]
  /\ UNCHANGED <<kind, user, inp, conn, locals, calls, history>>
  /\ UNCHANGED page

\* finally: await conn.close(); then the response goes to the client and the
\* handler's arguments and locals are gone (of the response, the outcome is kept).
Close(r) ==
  /\ pc[r] = "close"
  /\ Rollback(r)
  /\ conn' = [conn EXCEPT ![r] = "closed"]
  /\ pc' = [pc EXCEPT ![r] = "done"]
  /\ served' = IF kind[r] = "next_article" /\ result[r].outcome = "ok"
               THEN served (+) SetToBag({<<uid[r], result[r].payload.article_id>>})
               ELSE served
  /\ uid' = [uid EXCEPT ![r] = 0]
  /\ attempt' = [attempt EXCEPT ![r] = 0]
  /\ js' = [js EXCEPT ![r] = NoJs]
  /\ article_id' = [article_id EXCEPT ![r] = 0]
  /\ fetches' = [fetches EXCEPT ![r] = 0]
  /\ failed' = [failed EXCEPT ![r] = FALSE]
  /\ result' = [result EXCEPT ![r] = Outcome(@.outcome)]
  /\ kind' = [kind EXCEPT ![r] = "next_article"]
  /\ user' = [user EXCEPT ![r] = "alice"]
  /\ inp' = [inp EXCEPT ![r] = NoInp]
  /\ UNCHANGED <<calls, resolved, raced>>
  /\ UNCHANGED page

Next ==
  \E r \in Req :
     \/ StartNextArticle(r)
     \/ StartReact(r)
     \/ GetDb(r)
     \/ UserInsert(r)
     \/ UserCommit(r)
     \/ UserSelect(r)
     \/ Fetch(r)
     \/ FetchFails(r)
     \/ ArticleInsert(r)
     \/ ArticleCommit(r)
     \/ ArticleSelect(r)
     \/ ExposureSelect(r)
     \/ ExposureInsert(r)
     \/ ExposureCommit(r)
     \/ ReactUpdate(r)
     \/ ReactCommit(r)
     \/ Close(r)

Spec == Init /\ [][Next]_vars

\* Every await of a request completes (the upstream fetch has a timeout, a
\* statement waiting for the write lock gets it once the holder commits or
\* closes), so a request that has arrived keeps taking steps.
Step(r) ==
  \/ GetDb(r) \/ UserInsert(r) \/ UserCommit(r) \/ UserSelect(r)
  \/ Fetch(r) \/ FetchFails(r)
  \/ ArticleInsert(r) \/ ArticleCommit(r) \/ ArticleSelect(r)
  \/ ExposureSelect(r) \/ ExposureInsert(r) \/ ExposureCommit(r)
  \/ ReactUpdate(r) \/ ReactCommit(r) \/ Close(r)

\* The state after one request that ended in get_db.
InitAfterOne ==
  /\ PageIdle
  /\ store = EmptyDb
  /\ pending = EmptyDb
  /\ writer = "none"
  /\ pc = [r \in Req |-> IF r = "r1" THEN "done" ELSE "idle"]
  /\ kind = [r \in Req |-> "next_article"]
  /\ user = [r \in Req |-> "alice"]
  /\ inp = [r \in Req |-> NoInp]
  /\ conn = [r \in Req |-> IF r = "r1" THEN "open" ELSE "none"]
  /\ uid = [r \in Req |-> 0]
  /\ attempt = [r \in Req |-> 0]
  /\ js = [r \in Req |-> NoJs]
  /\ article_id = [r \in Req |-> 0]
  /\ result = [r \in Req |-> IF r = "r1" THEN Outcome("SchemaError") ELSE NoResult]
  /\ calls = 1
  /\ fetches = [r \in Req |-> 0]
  /\ resolved = {}
  /\ served = EmptyBag
  /\ raced = [r \in Req |-> {}]
  /\ failed = [r \in Req |-> FALSE]

FairSpec == InitAfterOne /\ [][Next]_vars /\ \A r \in Req : WF_vars(Step(r))

\* The window of a next_article request between the commit of its article
\* upsert and the execution of its exposure insert.
AfterArticleCommit == {"article_select", "exposure_select", "exposure_insert"}

\* The request is in that window.
InWindow(r) == kind[r] = "next_article" /\ pc[r] \in AfterArticleCommit

\* The server process dies while a next_article request is in that window:
\* every request in flight ends without a response and without its finally
\* block, and the database drops the open transaction.  Of a request that
\* died in the window the user id and the summary are kept for the record.
Crash ==
  /\ \E r \in Req : InWindow(r)
  /\ pc' = [r \in Req |-> IF Busy(r) THEN "done" ELSE pc[r]]
  /\ conn' = [r \in Req |-> IF Busy(r) THEN "lost" ELSE conn[r]]
  /\ result' = [r \in Req |->
                  IF ~Busy(r) THEN result[r]
                  ELSE IF InWindow(r) THEN Outcome("Crashed") ELSE Outcome("Killed")]
  /\ uid' = [r \in Req |-> IF Busy(r) /\ ~InWindow(r) THEN 0 ELSE uid[r]]
  /\ js' = [r \in Req |-> IF Busy(r) /\ ~InWindow(r) THEN NoJs ELSE js[r]]
  /\ attempt' = [r \in Req |-> IF Busy(r) THEN 0 ELSE attempt[r]]
  /\ article_id' = [r \in Req |-> IF Busy(r) THEN 0 ELSE article_id[r]]
  /\ fetches' = [r \in Req |-> IF Busy(r) THEN 0 ELSE fetches[r]]
  /\ kind' = [r \in Req |-> IF Busy(r) THEN "next_article" ELSE kind[r]]
  /\ user' = [r \in Req |-> IF Busy(r) THEN "alice" ELSE user[r]]
  /\ inp' = [r \in Req |-> IF Busy(r) THEN NoInp ELSE inp[r]]
  /\ raced' = [r \in Req |-> {}]
  /\ failed' = [r \in Req |-> FALSE]
  /\ pending' = store
  /\ writer' = "none"
  /\ UNCHANGED <<store, calls, resolved, served>>
  /\ UNCHANGED page

CrashNext == Next \/ Crash

CrashSpec == Init /\ [][CrashNext]_vars

\* A store three next_article calls and one react have left: alice has been
\* shown both articles and liked the second, bob has been shown the first.
SeenDb ==
  [users |-> {[id |-> 1, handle |-> "alice"], [id |-> 2, handle |-> "bob"]},
   articles |-> {[id |-> 1, lang |-> LANG, page_id |-> 42, title |-> "T", url |-> "https://x/T"],
                 [id |-> 2, lang |-> LANG, page_id |-> 7, title |-> "B", url |-> "https://x/B"]},
   user_articles |-> SetToBag({NewUserArticle(1, 1),
                               [NewUserArticle(1, 2) EXCEPT !.reacted = 1,
                                                            !.reaction = Some("like")],
                               NewUserArticle(2, 1)})]

\* The state after those calls, all of them finished.
InitSeen ==
  /\ PageIdle
  /\ store = SeenDb
  /\ pending = SeenDb
  /\ writer = "none"
  /\ pc = [r \in Req |-> "idle"]
  /\ kind = [r \in Req |-> "next_article"]
  /\ user = [r \in Req |-> "alice"]
  /\ inp = [r \in Req |-> NoInp]
  /\ conn = [r \in Req |-> "none"]
  /\ uid = [r \in Req |-> 0]
  /\ attempt = [r \in Req |-> 0]
  /\ js = [r \in Req |-> NoJs]
  /\ article_id = [r \in Req |-> 0]
  /\ result = [r \in Req |-> NoResult]
  /\ calls = 0
  /\ fetches = [r \in Req |-> 0]
  /\ resolved = {<<"alice", 1>>, <<"bob", 2>>}
  /\ served = SetToBag({<<1, 1>>, <<1, 2>>, <<2, 1>>})
  /\ raced = [r \in Req |-> {}]
  /\ failed = [r \in Req |-> FALSE]

SeenSpec == InitSeen /\ [][Next]_vars

\* ------------------------------------------------- GET /article_content
\* title, main_html = _extract_wikipedia_main_html(r.text)
ExtractWikipediaMainHtml ==
  /\ ppc = "fetching"
  /\ title' = ExtractTitle(html)
  /\ main_html' = ExtractMainHtml(html)
  /\ ppc' = "extracted"
  /\ UNCHANGED <<html, converted, format, content, service>>

\* r = await client.get(url): the page arrives, one element after the other.
ReceiveElement ==
  /\ ppc = "fetching"
  /\ Len(html) < MaxNodes
  /\ \E t \in Tags, p \in OpenElements(html) : html' = Append(html, Element(t, p))
  /\ UNCHANGED <<title, main_html, converted, format, content, ppc, service>>

\* An article_content request whose page is being fetched.
ExtractInit ==
  /\ NoRequests
  /\ html = <<>>
  /\ title = None
  /\ main_html = {}
  /\ converted = <<>>
  /\ format = "markdown"
  /\ content = <<>>
  /\ ppc = "fetching"

ExtractNext == ReceiveElement \/ ExtractWikipediaMainHtml

ExtractSpec == ExtractInit /\ [][ExtractNext]_vars

\* if format == "markdown": content = _html_to_markdown(main_html)
ConvertMarkdown ==
  /\ ppc = "extracted"
  /\ format = "markdown"
  /\ content' = HtmlToMarkdown(converted)
  /\ ppc' = "done"
  /\ UNCHANGED <<html, title, main_html, converted, format, service>>

\* else: content = _html_to_text(main_html)
ConvertText ==
  /\ ppc = "extracted"
  /\ format # "markdown"
  /\ content' = HtmlToText(converted)
  /\ ppc' = "done"
  /\ UNCHANGED <<html, title, main_html, converted, format, service>>

\* The post-processing over every string the conversion may produce within
\* the bound, whatever the HTML it was produced from.
ConvertInit ==
  /\ NoRequests
  /\ html = <<>>
  /\ title = None
  /\ main_html = {}
  /\ converted \in Texts
  /\ format \in {"markdown", "text"}
  /\ content = <<>>
  /\ ppc = "extracted"

ConvertNext == ConvertMarkdown \/ ConvertText

ConvertSpec == ConvertInit /\ [][ConvertNext]_vars

\* ------------------------------------------------------------------ claims
NextArticleAt(r, where) == kind[r] = "next_article" /\ pc[r] = where

\* C1: for every user and article, at most one next_article call of that
\* user ever returns that article, whatever the interleaving of the calls.
C1_ExposureUniqueness == \A e \in BagToSet(served) : CopiesIn(e, served) <= 1

\* C1 witness: a later call of a user draws an article that was already
\* returned to that user and is about to check its exposure.
C1_Witness ==
  \E r \in Req : /\ NextArticleAt(r, "exposure_select")
                 /\ BagIn(<<uid[r], article_id[r]>>, served)

\* The outcomes that end a call through an exception other than the 404.
ErrorOutcomes == {"UpstreamError", "IntegrityError", "FailedToGetUserId500"}

ExposureRows(db, u, a) ==
  LET rows == {row \in BagToSet(db.user_articles) : row.user_id = u /\ row.article_id = a}
  IN IF rows = {} THEN 0
     ELSE IF Cardinality(rows) = 1 THEN CopiesIn(CHOOSE row \in rows : TRUE, db.user_articles)
     ELSE 2

\* C3: the store never holds two exposure rows of one (user, article) pair,
\* and the exposure insert adds the new row when the pair has none and
\* fails, adding nothing, when it has one.
C3_OneRowPerPair ==
  /\ [](\A db \in {store, pending} : \A row \in BagToSet(db.user_articles) :
          ExposureRows(db, row.user_id, row.article_id) = 1)
  /\ [][\A r \in Req :
          pc[r] = "exposure_insert" /\ pc'[r] # "exposure_insert" =>
            IF ExposureRows(View(r), uid[r], article_id[r]) > 0
            THEN /\ pending' = View(r)
                 /\ store' = store
                 /\ pc'[r] = "close"
                 /\ result'[r].outcome = "IntegrityError"
            ELSE /\ pending'.user_articles =
                      View(r).user_articles (+)
                        SetToBag({[user_id |-> uid[r], article_id |-> article_id[r],
                                   reacted |-> 0, reaction |-> None]})
                 /\ pc'[r] = "exposure_commit"]_vars

\* C3 witness: an exposure insert met the row of its pair and failed.
C3_Witness ==
  \E r \in Req : /\ pc[r] = "close"
                 /\ result[r].outcome = "IntegrityError"
                 /\ ExposureRows(store, uid[r], article_id[r]) = 1

\* C4: of two next_article requests of one user that both passed the
\* exposure check for one article before either inserted, exactly one
\* returns the article and the other ends with the uniqueness error (it is
\* not resampled into another outcome).
C4_LoserSurfaced ==
  \A r1, r2 \in Req :
     /\ r1 # r2
     /\ r2 \in raced[r1]
     /\ result[r1].outcome # "none"
     /\ result[r2].outcome # "none"
     => {result[r1].outcome, result[r2].outcome} = {"ok", "IntegrityError"}

\* C4 witness: a raced pair has ended, one with the article, one with the error.
C4_Witness ==
  \E r1, r2 \in Req : /\ r2 \in raced[r1]
                      /\ pc[r1] = "done" /\ result[r1].outcome = "ok"
                      /\ pc[r2] = "done" /\ result[r2].outcome = "IntegrityError"

\* C5 as stated: no request of a user has run its exposure check for an
\* article while another request of that user is between its own check
\* (found no row) and its insert for that article.
C5_CheckAndRecordAtomic ==
  \A r1, r2 \in Req :
     r1 # r2 =>
       ~(/\ pc[r1] = "exposure_insert" /\ pc[r2] = "exposure_insert"
         /\ uid[r1] = uid[r2] /\ article_id[r1] = article_id[r2])

\* The request has inserted its exposure row.
Inserted(r) == pc[r] = "exposure_commit" \/ result[r].outcome = "ok"

\* C5 amended: a request may run its exposure check inside another request's
\* check-to-insert gap for the same user and article, but of requests whose
\* gaps overlapped at most one inserts the exposure row.
C5_OneInsertPerGap ==
  \A r1, r2 \in Req : r1 # r2 /\ r2 \in raced[r1] => ~(Inserted(r1) /\ Inserted(r2))

\* C5 witness: one request of an overlapping pair has inserted, the other
\* has still to run its insert.
C5_Witness ==
  \E r1, r2 \in Req : /\ r2 \in raced[r1]
                      /\ pc[r1] = "exposure_commit"
                      /\ pc[r2] = "exposure_insert"

\* C6: get_or_create_user is idempotent: all calls with one handle return
\* one id, the store holds exactly one row of a resolved handle, and no call
\* ends with the 500 'failed to get user id'.
C6_EnsureUserIdempotent ==
  /\ \A p, q \in resolved : p[1] = q[1] => p[2] = q[2]
  /\ \A p \in resolved :
        {row \in store.users : row.handle = p[1]} = {[id |-> p[2], handle |-> p[1]]}
  /\ \A db \in {store, pending}, h \in Handles :
        Cardinality({row \in db.users : row.handle = h}) <= 1
  /\ \A r \in Req : result[r].outcome # "FailedToGetUserId500"

\* C6 witness: two requests in flight with one handle have both resolved it.
C6_Witness ==
  \E r1, r2 \in Req : /\ r1 # r2
                      /\ user[r1] = user[r2]
                      /\ uid[r1] # 0 /\ uid[r2] = uid[r1]
                      /\ pc[r1] = "fetch" /\ pc[r2] = "react_update"

\* The article row a request's summary names, as the request sees it.
ArticleRows(r) ==
  {row \in View(r).articles : row.lang = LANG /\ row.page_id = js[r].pageid[1]}

\* C7: the article upsert is idempotent: when the (language, page id) of the
\* summary already has a row, the insert changes no article row, the id the
\* request gets is that row's, and the row keeps its first title and URL.
C7_EnsureArticleIdempotent ==
  /\ [][\A r \in Req :
          pc[r] = "article_insert" /\ pc'[r] = "article_commit" /\ ArticleRows(r) # {} =>
            pending'.articles = View(r).articles]_vars
  /\ [](\A r \in Req :
          pc[r] \in {"exposure_select", "exposure_insert", "exposure_commit"} =>
            /\ Cardinality(ArticleRows(r)) = 1
            /\ \A row \in ArticleRows(r) : row.id = article_id[r])
  /\ [][\A row \in store.articles : row \in store'.articles]_vars

\* C7 witness: a request holds the id of an article whose stored title and
\* URL differ from those of the summary it fetched.
C7_Witness ==
  \E r \in Req : /\ pc[r] = "exposure_select"
                 /\ \E row \in store.articles :
                       /\ row.id = article_id[r]
                       /\ row.title # js[r].title[1]
                       /\ row.url # DesktopPageUrl(js[r])[1]

\* A summary the claim names as rejected: a type other than absent or
\* "standard", or no page id, title or desktop page URL.
NamedRejected(s) ==
  \/ s.type \notin {None, Some("standard")}
  \/ s.pageid = None
  \/ s.title = None
  \/ s.content_urls = None
  \/ s.content_urls # None /\ s.content_urls[1].desktop = None
  \/ s.content_urls # None /\ s.content_urls[1].desktop # None
       /\ s.content_urls[1].desktop[1].page = None

C9_PayloadAfterCommit ==
  \A r \in Req :
     NextArticleAt(r, "close") /\ result[r].outcome = "ok" =>
       LET p == result[r].payload
       IN /\ \E row \in store.articles :
                row.lang = LANG /\ row.page_id = js[r].pageid[1] /\ row.id = p.article_id
          /\ ExposureRows(store, uid[r], p.article_id) = 1
          /\ p.title = js[r].title
          /\ p.url = js[r].content_urls[1].desktop[1].page
          /\ p.summary.extract = js[r].extract
          /\ p.summary.thumbnail =
               IF js[r].thumbnail = None THEN None ELSE js[r].thumbnail[1].source
          /\ js[r] = StdA =>
               p = [article_id |-> p.article_id, title |-> Some("T"), url |-> Some("https://x/T"),
                    summary |-> [extract |-> Some("E"), thumbnail |-> None]]

\* C9 witness: the scenario's summary has been served.
C9_Witness ==
  \E r \in Req : /\ NextArticleAt(r, "close")
                 /\ result[r].outcome = "ok"
                 /\ js[r] = StdA

\* C10: a react for a (user, article id) pair without an exposure row
\* changes no row of the store, creates no exposure row, and answers ok.
C10_ReactWithoutExposureNoOp ==
  /\ [][\A r \in Req :
          /\ pc[r] = "react_update" /\ pc'[r] # "react_update"
          /\ ExposureRows(View(r), uid[r], inp[r].article_id) = 0
          => /\ pending' = View(r)
             /\ store' = store
             /\ pc'[r] = "react_commit"]_vars
  /\ [][\A r \in Req :
          pc[r] = "react_commit" /\ pc'[r] # "react_commit" =>
            /\ store' = View(r)
            /\ result'[r].outcome = "ok"
            /\ pc'[r] = "close"]_vars

\* C10 witness: a react whose pair has no exposure row has answered ok while
\* the store holds exposure rows of other pairs.
C10_Witness ==
  \E r \in Req : /\ kind[r] = "react" /\ pc[r] = "close"
                 /\ result[r].outcome = "ok"
                 /\ ExposureRows(store, uid[r], inp[r].article_id) = 0
                 /\ \E row \in BagToSet(store.user_articles) : row.user_id = uid[r]

\* C11: every request that has opened a connection has closed it by the time
\* the request ends, whatever the exit path.
C11_ConnectionClosedOnExit ==
  \A r \in Req : pc[r] = "done" /\ conn[r] # "none" => conn[r] = "closed"


\* A run of three newlines starts at position i of s.
NewlineRunAt(s, i) == i + 2 <= Len(s) /\ s[i] = NL /\ s[i + 1] = NL /\ s[i + 2] = NL
HasLongNewlineRun(s) == \E i \in 1..Len(s) : NewlineRunAt(s, i)

\* C12: the content either conversion returns holds no run of three or more
\* consecutive newlines.
C12_NoLongNewlineRun ==
  ppc = "done" => ~HasLongNewlineRun(content)

\* The Markdown half of C12, which holds.
C12_MarkdownNoLongNewlineRun ==
  ppc = "done" /\ format = "markdown" => ~HasLongNewlineRun(content)


\* The elements of the page lying in an info box or a reference list.
Boilerplate == {"table.infobox", "ol.references"}
InBoilerplate(doc, i) == \E b \in Subtree(doc, i) \cup Ancestors(doc, i) :
                            /\ i \in Subtree(doc, b)
                            /\ doc[b].tag \in Boilerplate
HasBoth(doc) == \A t \in Boilerplate : \E i \in 1..Len(doc) : doc[i].tag = t

\* C13 as stated: for a page holding an info box and a reference list, with
\* or without a main-content container, the extracted fragment holds no text
\* of these subtrees and all the text outside them.
C13_BoilerplateRemovedAnywhere ==
  ppc = "extracted" /\ HasBoth(html) =>
     \A i \in 1..Len(html) : i \in main_html <=> ~InBoilerplate(html, i)

\* The first main-content container of the page, or 0.
Container(doc) ==
  IF \E i \in 1..Len(doc) : doc[i].tag = "div#mw-content-text"
  THEN CHOOSE i \in 1..Len(doc) :
          /\ doc[i].tag = "div#mw-content-text"
          /\ \A j \in 1..(i - 1) : doc[j].tag # "div#mw-content-text"
  ELSE 0

\* Element i lies in an info box or reference list that is inside container c.
InBoilerplateWithin(doc, c, i) ==
  \E b \in 1..Len(doc) :
     /\ doc[b].tag \in Boilerplate
     /\ c \in Ancestors(doc, b)
     /\ (b = i \/ b \in Ancestors(doc, i))

\* C13, amended: when the page has a main-content container, the fragment
\* holds exactly the text of the container that is outside the info boxes and
\* reference lists inside it (text outside the container is dropped); when
\* it has none, the fragment is the whole page, boilerplate included.
C13_BoilerplateRemovedInContainer ==
  ppc = "extracted" =>
     LET c == Container(html)
     IN IF c = 0
        THEN main_html = 1..Len(html)
        ELSE \A i \in 1..Len(html) :
                i \in main_html <=>
                   /\ (i = c \/ c \in Ancestors(html, i))
                   /\ ~InBoilerplateWithin(html, c, i)

\* A container holding an info box, a reference list and a paragraph: the
\* fragment is the container and the paragraph.
C13_Witness ==
  /\ ppc = "extracted"
  /\ Len(html) = 4
  /\ html[1].tag = "div#mw-content-text"
  /\ \A i \in 2..4 : html[i].parent = 1
  /\ {html[i].tag : i \in 2..4} = Boilerplate \cup {"p"}
  /\ \E i \in 2..4 : html[i].tag = "p" /\ main_html = {1, i}


\* The (user id, article id) pairs that have an exposure row.
ExposurePairs(db) == {<<row.user_id, row.article_id>> : row \in BagToSet(db.user_articles)}

\* C14: an exposure row enters the committed store only in the step in which
\* a next_article call commits it and gets its payload for that article, and
\* the outcome a call has when it leaves the try block is the one it ends
\* with; so a call that ends with the 404 or an error has committed no
\* exposure row.
C14_NoExposureWithoutPayload ==
  /\ [][\A e \in ExposurePairs(store') :
          ExposureRows(store', e[1], e[2]) > ExposureRows(store, e[1], e[2]) =>
            \E r \in Req :
               /\ NextArticleAt(r, "exposure_commit")
               /\ uid[r] = e[1] /\ article_id[r] = e[2]
               /\ pc'[r] = "close"
               /\ result'[r].outcome = "ok"
               /\ result'[r].payload.article_id = e[2]]_vars
  /\ [][\A r \in Req :
          pc[r] = "close" =>
            /\ pc'[r] \in {"close", "done"}
            /\ result'[r].outcome = result[r].outcome
            /\ (result[r].outcome # "ok" /\ writer = r =>
                  ExposurePairs(store') = ExposurePairs(store))]_vars

\* C14 witness: a call ends with the failed exposure insert while the store
\* holds the row of its pair, committed by the call that won the race.
C14_Witness ==
  \E r \in Req : /\ NextArticleAt(r, "close")
                 /\ result[r].outcome = "IntegrityError"
                 /\ ExposureRows(store, uid[r], article_id[r]) = 1


\* The exposure rows of db other than those of the pair (u, a), with their counts.
OtherRows(db, u, a) ==
  {<<row, CopiesIn(row, db.user_articles)>> :
     row \in {x \in BagToSet(db.user_articles) : x.user_id # u \/ x.article_id # a}}

\* The exposure rows of the pair (u, a) in db, with their counts.
PairRows(db, u, a) ==
  {<<row, CopiesIn(row, db.user_articles)>> :
     row \in {x \in BagToSet(db.user_articles) : x.user_id = u /\ x.article_id = a}}

ReactedRow(u, a, re) ==
  [user_id |-> u, article_id |-> a, reacted |-> 1, reaction |-> Some(re)]

\* C15: a react for a pair with an exposure row leaves, in its transaction
\* and then in the committed store, that row with reacted = 1 and the given
\* reaction, whatever reaction the row had before, and every other exposure
\* row, every article row and every user row as it was.
C15_ReactSetsExactlyThatRow ==
  /\ [][\A r \in Req :
          /\ pc[r] = "react_update" /\ pc'[r] # "react_update"
          /\ ExposureRows(View(r), uid[r], inp[r].article_id) = 1
          => /\ PairRows(pending', uid[r], inp[r].article_id) =
                  {<<ReactedRow(uid[r], inp[r].article_id, inp[r].reaction), 1>>}
             /\ OtherRows(pending', uid[r], inp[r].article_id) =
                  OtherRows(View(r), uid[r], inp[r].article_id)
             /\ pending'.users = View(r).users
             /\ pending'.articles = View(r).articles
             /\ store' = store]_vars
  /\ [][\A r \in Req :
          /\ pc[r] = "react_commit" /\ pc'[r] # "react_commit"
          /\ ExposureRows(store, uid[r], inp[r].article_id) = 1
          => /\ PairRows(store', uid[r], inp[r].article_id) =
                  {<<ReactedRow(uid[r], inp[r].article_id, inp[r].reaction), 1>>}
             /\ OtherRows(store', uid[r], inp[r].article_id) =
                  OtherRows(store, uid[r], inp[r].article_id)
             /\ store'.users = store.users
             /\ store'.articles = store.articles
             /\ result'[r].outcome = "ok"]_vars

\* C15 witness: a react is about to commit a reaction over a different one
\* the row already has, while the store holds rows of another user and of
\* another article.
C15_Witness ==
  \E r \in Req :
     /\ kind[r] = "react" /\ pc[r] = "react_commit"
     /\ \E old \in Reactions \ {inp[r].reaction} :
           PairRows(store, uid[r], inp[r].article_id) =
             {<<ReactedRow(uid[r], inp[r].article_id, old), 1>>}
     /\ PairRows(pending, uid[r], inp[r].article_id) =
          {<<ReactedRow(uid[r], inp[r].article_id, inp[r].reaction), 1>>}
     /\ \E e \in OtherRows(store, uid[r], inp[r].article_id) : e[1].user_id # uid[r]
     /\ \E e \in OtherRows(store, uid[r], inp[r].article_id) : e[1].user_id = uid[r]


\* C16: no step removes or alters a user row or an article row of the
\* committed store, a new row takes no id, handle or (lang, page id) of an
\* old one, and every exposure row keeps its user id and article id: a step
\* changes of it at most reacted and reaction.
C16_StoreOnlyGrows ==
  [][/\ store.users \subseteq store'.users
     /\ \A new \in store'.users \ store.users, old \in store.users :
           new.id # old.id /\ new.handle # old.handle
     /\ store.articles \subseteq store'.articles
     /\ \A new \in store'.articles \ store.articles, old \in store.articles :
           new.id # old.id /\ (new.lang # old.lang \/ new.page_id # old.page_id)
     /\ \A e \in ExposurePairs(store) :
           ExposureRows(store', e[1], e[2]) >= ExposureRows(store, e[1], e[2])]_vars

\* C16 witness: a react has committed its reaction to the row that a
\* next_article call created, together with the user and the article.
C16_Witness ==
  \E r \in Req :
     /\ kind[r] = "react" /\ pc[r] = "close" /\ result[r].outcome = "ok"
     /\ ReactedRow(uid[r], inp[r].article_id, inp[r].reaction)
           \in BagToSet(store.user_articles)
     /\ \E row \in store.users : row.id = uid[r]
     /\ \E row \in store.articles : row.id = inp[r].article_id


\* The article rows of the summary's page.
ArticlesOf(db, s) == {row \in db.articles : row.lang = LANG /\ row.page_id = s.pageid[1]}

\* Request r handles a page for a user for whom a request died between the
\* commit of that page's article and the insert of its exposure.
Orphaned(r) ==
  /\ kind[r] = "next_article"
  /\ \E d \in Req \ {r} : /\ result[d].outcome = "Crashed"
                          /\ uid[d] = uid[r]
                          /\ js[d].pageid = js[r].pageid

\* C17: a crash in the window changes nothing in the store, which holds the
\* dead request's article; and a later call of the same user that draws the
\* same page adds no article row, reads the existing article's id, and, the
\* pair having no exposure, passes the exposure check, inserts the row,
\* commits it and returns the article under that id.
C17_OrphanArticleDoesNotBlock ==
  /\ [][\A d \in Req :
          result'[d].outcome = "Crashed" /\ result[d].outcome # "Crashed" =>
            /\ store' = store
            /\ pending' = store
            /\ ArticlesOf(store', js'[d]) # {}]_vars
  /\ [][\A r \in Req :
          Orphaned(r) /\ pc'[r] # pc[r] /\ result'[r].outcome \notin {"Crashed", "Killed"} =>
            LET a == (CHOOSE row \in ArticlesOf(store, js[r]) : TRUE).id
                fresh == ExposureRows(View(r), uid[r], a) = 0
            IN /\ pc[r] = "article_insert" =>
                    /\ Cardinality(ArticlesOf(store, js[r])) = 1
                    /\ pending'.articles = store.articles
                    /\ pc'[r] = "article_commit"
               /\ pc[r] = "article_commit" =>
                    /\ store'.articles = store.articles
                    /\ pc'[r] = "article_select"
               /\ pc[r] = "article_select" =>
                    /\ article_id'[r] = a
                    /\ pc'[r] = "exposure_select"
               /\ pc[r] = "exposure_select" /\ fresh => pc'[r] = "exposure_insert"
               /\ pc[r] = "exposure_insert" /\ fresh =>
                    /\ ExposureRows(pending', uid[r], a) = 1
                    /\ pc'[r] = "exposure_commit"
               /\ pc[r] = "exposure_commit" =>
                    /\ ExposureRows(store', uid[r], a) = 1
                    /\ result'[r].outcome = "ok"
                    /\ result'[r].payload.article_id = a
                    /\ article_id[r] = a]_vars

\* C17 witness: the later call returns the article of a request that died in
\* the window, the first article ever returned to that user.
C17_Witness ==
  \E r \in Req :
     /\ Orphaned(r)
     /\ pc[r] = "close"
     /\ result[r].outcome = "ok"
     /\ ExposureRows(store, uid[r], result[r].payload.article_id) = 1
     /\ served = EmptyBag
     /\ calls = 2


\* C18: a request whose upstream fetch has raised is on its way out with the
\* upstream error, which is not the 404, and the failing fetch was its last:
\* the attempt it failed in is not counted as a rejected one and no fetch
\* follows it, whatever is left of the budget.
C18_UpstreamFailureAborts ==
  \A r \in Req :
     failed[r] =>
        /\ NextArticleAt(r, "close")
        /\ result[r].outcome = "UpstreamError"
        /\ result[r].outcome # "NotFound404"
        /\ fetches[r] = attempt[r] + 1

\* C18 witness: the fetch fails in a later attempt, with budget left.
C18_Witness ==
  \E r \in Req : /\ failed[r]
                 /\ attempt[r] > 0
                 /\ attempt[r] + 1 < MaxAttempts


\* C19: in the committed store and in every open transaction, an exposure
\* row has reacted = 1 exactly when its reaction is not null, and a reaction
\* that is not null is one of like, skip, block.
C19_ReactedIffReaction ==
  \A db \in {store, pending} :
     \A row \in BagToSet(db.user_articles) :
        /\ row.reacted \in {0, 1}
        /\ row.reacted = 1 <=> row.reaction # None
        /\ row.reaction # None => row.reaction[1] \in Reactions

\* C19 witness: a react has committed its reaction to a row that next_article
\* had created.
C19_Witness ==
  \E row \in BagToSet(store.user_articles) :
     /\ row.reacted = 1
     /\ row.reaction = Some("block")
     /\ BagIn(<<row.user_id, row.article_id>>, served)

====
